---------------------------- MODULE Spec2Model ----------------------------
(***************************************************************************)
(* SubredditMediaDownloader: the media resolution and concurrent download  *)
(* pipeline of src/main.py with the retry wrapper of src/utils.py.         *)
(*                                                                         *)
(* Strings of the program (URLs, identifiers, file names, page bodies) are *)
(* sequences of one-character strings, so that the regular expressions and *)
(* string operations of the code are computed character by character.      *)
(* One action is one atomic block of the single-threaded event loop: the   *)
(* code that runs between two suspension points (awaits on the network or  *)
(* on the file thread pool).                                               *)
(***************************************************************************)
EXTENDS Integers, Sequences, FiniteSets, TLC

(***************************************************************************)
(* Bounds of the model.                                                    *)
(***************************************************************************)
\* Largest number of submissions the enumeration yields in one run.
NumPosts == 2

\* Largest number of entries in the media_metadata of one gallery post.
MaxGallery == 2

\* Largest number of consecutive 429 answers to one permalink request chain.
Max429 == 2

\* Largest number of download tasks of one run in which a request, a file
\* write or the start of the transcoder raises.
MaxFaultyTasks == 1

(***************************************************************************)
(* String constants of the program.                                        *)
(***************************************************************************)

GALLERY_PREFIX ==
    <<"h","t","t","p","s",":","/","/","w","w","w",".","r","e","d","d","i","t",".","c","o","m","/","g","a","l","l","e","r","y","/">>

VREDDIT_PREFIX ==
    <<"h","t","t","p","s",":","/","/","v",".","r","e","d","d",".","i","t","/">>

VREDDIT_HOST ==
    <<"h","t","t","p","s",":","/","/","v",".","r","e","d","d",".","i","t">>

VREDDIT ==
    <<"v",".","r","e","d","d",".","i","t">>

DASH ==
    <<"D","A","S","H","_">>

DASH_AUDIO ==
    <<"D","A","S","H","_","a","u","d","i","o">>

AMP ==
    <<"a","m","p",";">>

CONTENT_MARK ==
    <<"c","o","n","t","e","n","t","=","\"">>

MP4 ==
    <<"m","p","4">>

GIF ==
    <<"g","i","f">>

GIFV ==
    <<"g","i","f","v">>

TEMP_SUFFIX ==
    <<"_","t","e","m","p",".","m","p","4">>

AUDIO_TEMP_SUFFIX ==
    <<"_","a","u","d","i","o","_","t","e","m","p",".","m","p","4">>

UrlJpg ==
    <<"h","t","t","p","s",":","/","/","i",".","r","e","d","d",".","i","t","/","a",".","j","p","g">>

UrlGif ==
    <<"h","t","t","p","s",":","/","/","i",".","r","e","d","d",".","i","t","/","a",".","g","i","f">>

UrlPng ==
    <<"h","t","t","p","s",":","/","/","i",".","r","e","d","d",".","i","t","/","a",".","p","n","g">>

UrlGifv ==
    <<"h","t","t","p","s",":","/","/","i",".","i","m","g","u","r",".","c","o","m","/","a",".","g","i","f","v">>

UrlGallery ==
    <<"h","t","t","p","s",":","/","/","w","w","w",".","r","e","d","d","i","t",".","c","o","m","/","g","a","l","l","e","r","y","/","a">>

UrlVideo ==
    <<"h","t","t","p","s",":","/","/","v",".","r","e","d","d",".","i","t","/","a">>

UrlExternal ==
    <<"h","t","t","p","s",":","/","/","e","x","a","m","p","l","e",".","c","o","m","/","a">>

UrlGalleryJpg ==
    <<"h","t","t","p","s",":","/","/","w","w","w",".","r","e","d","d","i","t",".","c","o","m","/","g","a","l","l","e","r","y","/","a",".","j","p","g">>

UrlVideoGifv ==
    <<"h","t","t","p","s",":","/","/","v",".","r","e","d","d",".","i","t","/","a",".","g","i","f","v">>

UrlServed1 ==
    <<"h","t","t","p","s",":","/","/","p","r","e","v","i","e","w",".","r","e","d","d",".","i","t","/","a",".","j","p","g","?","w","i","d","t","h","=","1","&","a","m","p",";","f","o","r","m","a","t","=","p","j","p","g","&","a","m","p",";","s","=","1">>

UrlServed2 ==
    <<"h","t","t","p","s",":","/","/","p","r","e","v","i","e","w",".","r","e","d","d",".","i","t","/","b",".","p","n","g","?","w","i","d","t","h","=","2","&","a","m","p",";","s","=","2">>

UrlServed3 ==
    <<"h","t","t","p","s",":","/","/","p","r","e","v","i","e","w",".","r","e","d","d",".","i","t","/","c",".","j","p","e","g","?","s","=","3">>

Unescaped1 ==
    <<"h","t","t","p","s",":","/","/","p","r","e","v","i","e","w",".","r","e","d","d",".","i","t","/","a",".","j","p","g","?","w","i","d","t","h","=","1","&","f","o","r","m","a","t","=","p","j","p","g","&","s","=","1">>

Unescaped2 ==
    <<"h","t","t","p","s",":","/","/","p","r","e","v","i","e","w",".","r","e","d","d",".","i","t","/","b",".","p","n","g","?","w","i","d","t","h","=","2","&","s","=","2">>

Unescaped3 ==
    <<"h","t","t","p","s",":","/","/","p","r","e","v","i","e","w",".","r","e","d","d",".","i","t","/","c",".","j","p","e","g","?","s","=","3">>

UrlFallback ==
    <<"h","t","t","p","s",":","/","/","v",".","r","e","d","d",".","i","t","/","a","/","D","A","S","H","_","7","2","0",".","m","p","4","?","s","o","u","r","c","e","=","f","a","l","l","b","a","c","k">>

UrlFallbackOld ==
    <<"h","t","t","p","s",":","/","/","v",".","r","e","d","d",".","i","t","/","a","/","D","A","S","H","_","9","_","6","_","M","?","s","o","u","r","c","e","=","f","a","l","l","b","a","c","k">>

UrlFallbackLow ==
    <<"h","t","t","p","s",":","/","/","v",".","r","e","d","d",".","i","t","/","a","/","D","A","S","H","_","9","6",".","m","p","4","?","s","o","u","r","c","e","=","f","a","l","l","b","a","c","k">>

PageMp4 ==
    <<"<","m","e","t","a"," ","c","o","n","t","e","n","t","=","\"","h","t","t","p","s",":","/","/","i",".","i","m","g","u","r",".","c","o","m","/","a",".","m","p","4","\""," ","/",">">>

PageNoMp4 ==
    <<"<","m","e","t","a"," ","c","o","n","t","e","n","t","=","\"","h","t","t","p","s",":","/","/","i",".","i","m","g","u","r",".","c","o","m","/","a",".","j","p","g","\""," ","/",">">>

\* Python's None, as a value that is no string of the program.
None == <<"<None>">>

\* The identifiers of the submissions, by position in the enumeration.
PostIds == <<"a", "b", "c", "d", "e", "f">>

(***************************************************************************)
(* String operations.                                                      *)
(***************************************************************************)
\* s[i .. i+Len(p)-1] = p
MatchAt(s, i, p) ==
    /\ i >= 1
    /\ i + Len(p) - 1 <= Len(s)
    /\ SubSeq(s, i, i + Len(p) - 1) = p

\* str.startswith
StartsWith(s, p) == MatchAt(s, 1, p)

\* str.endswith
EndsWith(s, p) == MatchAt(s, Len(s) - Len(p) + 1, p)

\* the operator `in` on strings
Contains(s, p) == \E i \in 1..Len(s) : MatchAt(s, i, p)

SetMin(S) == CHOOSE x \in S : \A y \in S : x <= y

SetMax(S) == CHOOSE x \in S : \A y \in S : x >= y

IsDigit(c) == c \in {"0", "1", "2", "3", "4", "5", "6", "7", "8", "9"}

DigitChars == <<"0", "1", "2", "3", "4", "5", "6", "7", "8", "9">>

\* str(n) of a natural number, as the f-string of parse_image formats it.
RECURSIVE IntToStr(_)
IntToStr(n) ==
    IF n < 10 THEN <<DigitChars[n + 1]>>
    ELSE IntToStr(n \div 10) \o <<DigitChars[(n % 10) + 1]>>

\* str.replace(old, ''): every non-overlapping occurrence of old, scanning
\* from the left, is dropped; the result is not scanned again.
RECURSIVE StrRemove(_, _)
StrRemove(s, old) ==
    IF s = <<>> THEN <<>>
    ELSE IF MatchAt(s, 1, old) THEN StrRemove(SubSeq(s, Len(old) + 1, Len(s)), old)
    ELSE <<Head(s)>> \o StrRemove(Tail(s), old)

\* str.split('.')[0]
RECURSIVE SplitDotFirst(_)
SplitDotFirst(s) ==
    IF s = <<>> \/ Head(s) = "." THEN <<>>
    ELSE <<Head(s)>> \o SplitDotFirst(Tail(s))

(***************************************************************************)
(* The regular expressions of the program.                                 *)
(***************************************************************************)
\* The alternatives of r'\.(jpe?g|gif?v|png|mp4)' after the dot: e? and f?
\* are optional characters, so the pattern reads jpg, jpeg, giv, gifv, png
\* or mp4.  No two of them match at the same position.
pattern ==
    { <<"j","p","g">>, <<"j","p","e","g">>, <<"g","i","v">>,
      <<"g","i","f","v">>, <<"p","n","g">>, <<"m","p","4">> }

\* re.search(pattern, link): the leftmost position of a dot followed by one
\* of the alternatives; group(1) of the match, or None when nothing matches.
re_search_group1(link) ==
    LET hits == { i \in 1..Len(link) :
                    link[i] = "." /\ \E a \in pattern : MatchAt(link, i + 1, a) }
    IN  IF hits = {} THEN None
        ELSE CHOOSE a \in pattern : MatchAt(link, SetMin(hits) + 1, a)

\* re.search(r'\.(jpg|gif|png)$', url)
IsDirectFile(url) ==
    \E e \in { <<".","j","p","g">>, <<".","g","i","f">>, <<".","p","n","g">> } :
        EndsWith(url, e)

\* re.search(r'\.gifv$', url)
IsGifv(url) == EndsWith(url, <<".","g","i","f","v">>)

\* re.findall(r'content="(.+mp4)', data)[0], or '' when there is no match:
\* the first content=" that is followed by at least one character and then
\* mp4; the greedy .+ runs to the last mp4 of the text (no line breaks).
first_mp4_content(data) ==
    LET starts == { i \in 1..Len(data) :
                      /\ MatchAt(data, i, CONTENT_MARK)
                      /\ \E j \in (i + Len(CONTENT_MARK) + 1)..Len(data) :
                            MatchAt(data, j, MP4) }
    IN  IF starts = {} THEN <<>>
        ELSE LET i == SetMin(starts)
                 b == i + Len(CONTENT_MARK)
                 e == SetMax({ j \in (b + 1)..Len(data) : MatchAt(data, j, MP4) })
             IN  SubSeq(data, b, e + Len(MP4) - 1)

\* The number of digits a match of r'DASH_(\d{3,4})' takes at position i
\* (after DASH_), 0 when the pattern does not match there: three digits are
\* required, a fourth is taken when present.
DashDigitsAt(s, i) ==
    IF /\ MatchAt(s, i, DASH)
       /\ i + Len(DASH) + 2 <= Len(s)
       /\ \A k \in 0..2 : IsDigit(s[i + Len(DASH) + k])
    THEN IF i + Len(DASH) + 3 <= Len(s) /\ IsDigit(s[i + Len(DASH) + 3])
         THEN 4 ELSE 3
    ELSE 0

\* re.sub(r'DASH_(\d{3,4})', 'DASH_audio', url)
RECURSIVE re_sub_dash(_)
re_sub_dash(s) ==
    IF s = <<>> THEN <<>>
    ELSE IF DashDigitsAt(s, 1) > 0
         THEN DASH_AUDIO \o
              re_sub_dash(SubSeq(s, Len(DASH) + DashDigitsAt(s, 1) + 1, Len(s)))
         ELSE <<Head(s)>> \o re_sub_dash(Tail(s))

(***************************************************************************)
(* Program constants.                                                      *)
(***************************************************************************)
\* utils.py: for tries in range(1, 6) ... if tries < 5
MaxTries == 5

\* main.py: for _ in trange(5 * 60): time.sleep(1)
CooldownSeconds == 300

\* main.py: aiohttp.TCPConnector(limit=10, ssl=False)
ConnLimit == 10

\* The exceptions of the first except clause of retry_connection.
TransientErrors == {"ClientError", "ConnectionError", "TimeoutError"}

\* Subclasses of Exception that the first except clause does not name.
OtherExceptions ==
    {"OSError", "FileNotFoundError", "IndexError", "KeyError", "ffmpeg.Error"}

\* Subclasses of BaseException that are no subclasses of Exception.
BaseOnlyExceptions == {"SystemExit"}

(***************************************************************************)
(* The retry wrapper (utils.py).                                           *)
(***************************************************************************)
\* The result of one invocation of a wrapped coroutine.
Returned(v) == [k |-> "return", exc |-> "none", v |-> v]

Raised(e) == [k |-> "raise", exc |-> e, v |-> None]

\* The wrapper with range(1, 5) for range(1, 6): it gives up after the
\* fourth transient error.
retry_connection_four_tries(tries, r) ==
    IF r.k = "return" THEN [k |-> "return", exc |-> "none", v |-> r.v]
    ELSE IF r.exc \in TransientErrors
         THEN IF tries < MaxTries - 1
              THEN [k |-> "retry", exc |-> "none", v |-> None]
              ELSE [k |-> "return", exc |-> "none", v |-> None]
    ELSE IF r.exc \in OtherExceptions
         THEN [k |-> "return", exc |-> "none", v |-> None]
    ELSE [k |-> "raise", exc |-> r.exc, v |-> None]

\* The wrapper with a single except clause: every exception is retried.
retry_connection_retries_all(tries, r) ==
    IF r.k = "return" THEN [k |-> "return", exc |-> "none", v |-> r.v]
    ELSE IF r.exc \in TransientErrors \cup OtherExceptions
         THEN IF tries < MaxTries
              THEN [k |-> "retry", exc |-> "none", v |-> None]
              ELSE [k |-> "return", exc |-> "none", v |-> None]
    ELSE [k |-> "raise", exc |-> r.exc, v |-> None]

\* What wrapper does with the result r of invocation number tries:
\* return the value, invoke again, return None, or let the exception pass.
retry_connection(tries, r) ==
    IF r.k = "return" THEN [k |-> "return", exc |-> "none", v |-> r.v]
    ELSE IF r.exc \in TransientErrors
         THEN IF tries < MaxTries
              THEN [k |-> "retry", exc |-> "none", v |-> None]
              ELSE [k |-> "return", exc |-> "none", v |-> None]
    ELSE IF r.exc \in OtherExceptions
         THEN [k |-> "return", exc |-> "none", v |-> None]
    ELSE [k |-> "raise", exc |-> r.exc, v |-> None]

\* _get_post_id for download(name=..., url=...): kwargs['name'].split('.')[0]
get_post_id(name) == SplitDotFirst(name)

(***************************************************************************)
(* Submissions.                                                            *)
(***************************************************************************)
ServedUrls == <<UrlServed1, UrlServed2, UrlServed3>>

\* The entries a media_metadata can hold: processed ("completed", with the
\* served URL under s.u), not processed ("failed", nothing else in it),
\* without the key status ("no_status"), or completed without the served
\* URL descriptor s ("no_url").
EntryKinds == {"completed", "failed", "no_status", "no_url"}

Entry(kind, url) ==
    [status |-> IF kind = "no_status" THEN "absent"
                ELSE IF kind = "no_url" THEN "completed" ELSE kind,
     u |-> IF kind \in {"no_url", "failed"} THEN None ELSE url]

\* The media_metadata of a gallery: entries in the order of the mapping.
GalleryMetadata ==
    UNION { { [i \in 1..n |->
                 Entry(kd[i], ServedUrls[((i - 1) % Len(ServedUrls)) + 1])] :
              kd \in [1..n -> EntryKinds] } : n \in 0..MaxGallery }

NoMetadata == <<>>

Submission(u, hasUrl, hasMeta, meta, xp) ==
    [has_url |-> hasUrl, url |-> u, has_metadata |-> hasMeta,
     media_metadata |-> meta, crosspost |-> xp]

\* The submissions the enumeration can yield (fields id, url, media_metadata,
\* crosspost_parent_list; an absent attribute is a FALSE flag or "absent").
\* crosspost: "absent" (no crosspost_parent_list), "none_media" (the parent's
\* media is None), "no_reddit_video" (the parent's media has no reddit_video)
\* or the transcoding_status of the parent's reddit_video.
Submissions ==
    { Submission(<<>>, FALSE, FALSE, NoMetadata, "absent") }
    \cup { Submission(u, TRUE, FALSE, NoMetadata, "absent") :
             u \in {UrlJpg, UrlGif, UrlPng, UrlGifv, UrlExternal, UrlGallery,
                    UrlGalleryJpg, UrlVideoGifv} }
    \cup { Submission(UrlGallery, TRUE, TRUE, m, "absent") : m \in GalleryMetadata }
    \cup { Submission(UrlVideo, TRUE, FALSE, NoMetadata, x) :
             x \in {"absent", "none_media", "no_reddit_video", "completed", "error"} }

NoSubmission == [id |-> <<>>] @@ Submission(<<>>, FALSE, FALSE, NoMetadata, "absent")

(***************************************************************************)
(* Media Resolver: pure parts.                                             *)
(***************************************************************************)
\* elements[key] = value on a dict kept in insertion order: an existing
\* key keeps its place and gets the new value.
DictSet(d, key, value) ==
    IF \E i \in 1..Len(d) : d[i].key = key
    THEN [i \in 1..Len(d) |-> IF d[i].key = key
                               THEN [key |-> key, url |-> value] ELSE d[i]]
    ELSE Append(d, [key |-> key, url |-> value])

RECURSIVE DictUpdate(_, _)
DictUpdate(d, items) ==
    IF items = <<>> THEN d
    ELSE DictUpdate(DictSet(d, Head(items).key, Head(items).url), Tail(items))

DictKeys(d) == { d[i].key : i \in 1..Len(d) }

\* parse_image raises KeyError: image['status'] on an entry without status,
\* or image['s'] on a completed entry without the served URL descriptor.
parse_image_raises(images) ==
    \E n \in 1..Len(images) :
        \/ images[n].status = "absent"
        \/ images[n].status = "completed" /\ images[n].u = None

\* parse_image: enumerate(images.values(), start=1); entries whose status is
\* not "completed" are passed over, the others are stored under
\* id_ + '_' + str(img_num) with 'amp;' taken out of the served URL.
RECURSIVE parse_image_from(_, _, _)
parse_image_from(id_, images, img_num) ==
    IF img_num > Len(images) THEN <<>>
    ELSE IF images[img_num].status # "completed"
         THEN parse_image_from(id_, images, img_num + 1)
         ELSE <<[key |-> id_ \o <<"_">> \o IntToStr(img_num),
                 url |-> StrRemove(images[img_num].u, AMP)]>>
              \o parse_image_from(id_, images, img_num + 1)

\* parse_image with a counter of its own for the stored entries.
RECURSIVE parse_image_counting_from(_, _, _, _)
parse_image_counting_from(id_, images, i, img_num) ==
    IF i > Len(images) THEN <<>>
    ELSE IF images[i].status # "completed"
         THEN parse_image_counting_from(id_, images, i + 1, img_num)
         ELSE <<[key |-> id_ \o <<"_">> \o IntToStr(img_num),
                 url |-> StrRemove(images[i].u, AMP)]>>
              \o parse_image_counting_from(id_, images, i + 1, img_num + 1)

parse_image_counting(id_, images) == parse_image_counting_from(id_, images, 1, 1)

\* parse_image storing every entry under the identifier of the post.
parse_image_post_key(id_, images) ==
    [i \in 1..Len(parse_image_from(id_, images, 1)) |->
        [key |-> id_, url |-> parse_image_from(id_, images, 1)[i].url]]

parse_image(id_, images) == parse_image_from(id_, images, 1)

\* parse_video without the test of transcoding_status.
parse_video_any_status(submission) ==
    IF submission.crosspost = "absent"
    THEN [k |-> "await", exc |-> "none", v |-> None]
    ELSE IF submission.crosspost = "none_media" THEN Returned(None)
    ELSE IF submission.crosspost = "no_reddit_video" THEN Raised("KeyError")
    ELSE Returned(UrlFallback)

\* parse_video up to its first await: the cross-post descriptor decides, or
\* (AttributeError: no crosspost_parent_list) download_video_with_json is
\* awaited.  A KeyError is raised again by the last except clause.
parse_video(submission) ==
    IF submission.crosspost = "absent"
    THEN [k |-> "await", exc |-> "none", v |-> None]
    ELSE IF submission.crosspost = "none_media" THEN Returned(None)
    ELSE IF submission.crosspost = "no_reddit_video" THEN Raised("KeyError")
    ELSE IF submission.crosspost # "completed" THEN Returned(None)
    ELSE Returned(UrlFallback)

\* The answers to the permalink request: an exception of session.get or
\* response.json(), or a status with the shape of the body.
JsonAnswers ==
    { [exc |-> e, status |-> 0, body |-> "none", url |-> <<>>] :
        e \in {"ClientError", "TimeoutError"} }
    \cup { [exc |-> "none", status |-> 429, body |-> "none", url |-> <<>>] }
    \cup { [exc |-> "none", status |-> 200, body |-> b, url |-> <<>>] :
             b \in {"bad_json", "no_media", "no_reddit_video", "not_a_listing",
                    "no_children"} }
    \cup { [exc |-> "none", status |-> 200, body |-> "not_completed", url |-> UrlFallback] }
    \cup { [exc |-> "none", status |-> 200, body |-> "completed", url |-> u] :
             u \in {UrlFallback, UrlFallbackOld, UrlFallbackLow} }

\* download_video_with_json treating 429 like an unusable answer.
download_video_with_json_no_cooldown(a) ==
    IF a.exc # "none" THEN Raised(a.exc)
    ELSE IF a.body # "completed" THEN Returned(<<>>)
    ELSE Returned(a.url)

\* download_video_with_json once the answer a to its request is there:
\* "sleep" stands for the cooldown followed by the recursive call.
download_video_with_json(a) ==
    IF a.exc # "none" THEN Raised(a.exc)
    ELSE IF a.status = 429 THEN [k |-> "sleep", exc |-> "none", v |-> None]
    ELSE IF a.body = "bad_json" THEN Returned(<<>>)
    ELSE IF a.body = "not_a_listing" THEN Returned(None)
    ELSE IF a.body = "no_children" THEN Raised("IndexError")
    ELSE IF a.body = "no_media" THEN Returned(<<>>)
    ELSE IF a.body = "no_reddit_video" THEN Raised("KeyError")
    ELSE IF a.body # "completed" THEN Returned(<<>>)
    ELSE Returned(a.url)

\* The pages a .gifv URL serves: bytes that decode as UTF-8 or not, and the
\* text when they do.
GifvPages ==
    { [decodes |-> FALSE, text |-> <<>>] }
    \cup { [decodes |-> TRUE, text |-> t] : t \in {PageMp4, PageNoMp4} }

\* get_real_gif_link once the page is read.
get_real_gif_link(page) ==
    IF ~page.decodes THEN <<>> ELSE first_mp4_content(page.text)

\* if link: / if video:
Truthy(v) == v # None /\ v # <<>>

(***************************************************************************)
(* Fetch Pipeline, Downloader, Media Merger, Storage Router: pure parts.   *)
(***************************************************************************)
\* The file name download_elements gives an item, None when it skips it.
file_name(name, link) ==
    LET group1 == re_search_group1(link)
    IN  IF group1 # None THEN name \o <<".">> \o group1
        ELSE IF Contains(link, VREDDIT) THEN name \o <<".">> \o MP4
        ELSE None

NewTask(name, link) ==
    [name |-> name, url |-> link,
     pc |-> "get",          \* the await the task is suspended at
     tries |-> 1,           \* the loop variable of wrapper: invocation number
     fails |-> 0,           \* invocations that raised a transient error
     status |-> 0,          \* status of the answer to this invocation's GET
     merge |-> "none",      \* what the transcoder run did
     ended |-> 0,           \* how many times the task has ended
     outcome |-> "none",    \* "written", "gone" or "abandoned"
     cause |-> "none",      \* the class of the exception it was abandoned for
     audio |-> <<>>,        \* the URL this invocation requested the audio at
     at |-> "none"]         \* the await at which the last invocation ended

\* The tasks download_elements creates, in the order of the dict.
RECURSIVE create_tasks(_)
create_tasks(links) ==
    IF links = <<>> THEN <<>>
    ELSE LET name == file_name(Head(links).key, Head(links).url)
         IN  IF name = None THEN create_tasks(Tail(links))
             ELSE <<NewTask(name, Head(links).url)>> \o create_tasks(Tail(links))

\* The status check without the 403 of deleted platform videos.
IsGone_404_only(status) == status = 404

\* download: what the status of the answer means.
IsGone(status) == status = 404 \/ status = 403

\* download: url.startswith('https://v.redd.it')
IsRedditVideo(url) == StartsWith(url, VREDDIT_HOST)

\* The router without the test for gifv.
get_file_dst_folder_gif_only(name) ==
    IF EndsWith(name, MP4) THEN "videos"
    ELSE IF EndsWith(name, GIF) THEN "gifs"
    ELSE "images"

\* get_file_dst_folder: the subfolder a file name goes to.
get_file_dst_folder(name) ==
    IF EndsWith(name, MP4) THEN "videos"
    ELSE IF EndsWith(name, GIF) \/ EndsWith(name, GIFV) THEN "gifs"
    ELSE "images"

\* A file of the download tree, and a file of the working directory.
DstPath(name) == [dir |-> get_file_dst_folder(name), name |-> name]

temp_video_file(name) == [dir |-> ".", name |-> name \o TEMP_SUFFIX]

temp_audio_file(name) == [dir |-> ".", name |-> name \o AUDIO_TEMP_SUFFIX]

\* File contents: the bytes of the answer to a URL, the output of the
\* transcoder for a video URL, or an incomplete write.
Body(url) == [kind |-> "body", url |-> url]

Muxed(url) == [kind |-> "muxed", url |-> url]

Partial == [kind |-> "partial", url |-> <<>>]

WriteFile(fs, path, content) == (path :> content) @@ fs

\* pathlib.Path(path).unlink()
Unlink(fs, path) == [p \in (DOMAIN fs) \ {path} |-> fs[p]]

\* The end of download_reddit_video: both temporary files are unlinked.
delete_temporary_files(fs, name) ==
    Unlink(Unlink(fs, temp_video_file(name)), temp_audio_file(name))

\* What mkdir(parents=True, exist_ok=True) does under the configured
\* DOWNLOAD_FOLDER: "ok", FileNotFoundError ("missing") or another OSError
\* ("denied").  get_file_dst_folder catches FileNotFoundError only, closes
\* the session and calls exit().
mkdir(folder) ==
    IF folder = "ok" THEN Returned(None)
    ELSE IF folder = "missing" THEN Raised("SystemExit")
    ELSE Raised("OSError")

\* The subfolders that exist after get_file_dst_folder(name): mkdir with
\* exist_ok=True returns only when the directory is there.
makedirs(ds, folder, name) ==
    IF mkdir(folder).k = "return" THEN ds \cup {get_file_dst_folder(name)} ELSE ds

\* The answers to session.get(url) in download.
Statuses == {200, 403, 404}

\* A wait that returns with the first task that has ended.
gather_first_completed(ts) == \E t \in 1..Len(ts) : ts[t].pc = "done"

\* tqdm's gather: download_elements goes on when every task has ended.
gather_done(ts) == \A t \in 1..Len(ts) : ts[t].pc = "done"

(***************************************************************************)
(* State.                                                                  *)
(***************************************************************************)
VARIABLES
    phase,      \* "resolving", "downloading", "done" (run returned), "aborted",
                \* "interrupted"
    idx,        \* number of submissions taken from the enumeration
    sub,        \* the loop variable of get_elements_info
    rpc,        \* where get_elements_info is suspended: "loop", "gifv",
                \* "json", "sleep", "recurse"
    tries,      \* invocation number in the wrapper around parse_video
    wrapped,    \* that wrapper's record: invocations that raised a transient
                \* error, returns to get_elements_info, and the class of the
                \* exception parse_video was given up for
    requests,   \* permalink requests issued by the current invocation
    n429,       \* 429 answers received by the current invocation
    answered,   \* status of the answer to the last permalink request: 0
                \* while a request is in flight or after it raised
    held,       \* connections of 429 answers whose body is not at EOF yet
    slept,      \* seconds slept since the last 429 answer
    elements,   \* the dict of get_elements_info, in insertion order
    escaped,    \* the exception that left run(), and the coroutine it left
    tasks,      \* the tasks of download_elements, in creation order
    files,      \* the file system: path -> content
    folder,     \* what creating the download folders does: "untested"
                \* until the first mkdir, then "ok", "missing" or "denied"
    dirs        \* the subfolders of <DOWNLOAD_FOLDER>/<SUBREDDIT> that exist

vars == <<phase, idx, sub, rpc, tries, wrapped, requests, n429, answered, held, slept, elements,
          escaped, tasks, files, folder, dirs>>

rvars == <<idx, sub, rpc, tries, wrapped, requests, n429, answered, held, slept, elements>>

dvars == <<tasks, files, folder, dirs>>

NoEscape == [exc |-> "none", at |-> "none"]

NotWrapped ==
    [fails |-> 0, ended |-> 0, cause |-> "none",
     descriptor |-> "none",     \* the video descriptor the last invocation found
     fallback_url |-> <<>>]     \* and the fallback_url in it

NoFiles == [p \in {} |-> Partial]

Init ==
    /\ phase = "resolving"
    /\ idx = 0
    /\ sub = NoSubmission
    /\ rpc = "loop"
    /\ tries = 0
    /\ wrapped = NotWrapped
    /\ requests = 0
    /\ n429 = 0
    /\ answered = 0
    /\ held = 0
    /\ slept = 0
    /\ elements = <<>>
    /\ escaped = NoEscape
    /\ tasks = <<>>
    /\ files = NoFiles
    /\ folder = "untested"
    /\ dirs = {}

(***************************************************************************)
(* Media Resolver: get_elements_info.                                      *)
(***************************************************************************)
\* The if/elif chain with the gallery and video tests first.
classify_prefix_first(url) ==
    IF StartsWith(url, GALLERY_PREFIX) THEN "gallery"
    ELSE IF StartsWith(url, VREDDIT_PREFIX) THEN "video"
    ELSE IF IsDirectFile(url) THEN "direct"
    ELSE IF IsGifv(url) THEN "gifv"
    ELSE "external"

\* The branch of the if/elif chain a URL takes: first match wins.
classify(url) ==
    IF IsDirectFile(url) THEN "direct"
    ELSE IF IsGifv(url) THEN "gifv"
    ELSE IF StartsWith(url, GALLERY_PREFIX) THEN "gallery"
    ELSE IF StartsWith(url, VREDDIT_PREFIX) THEN "video"
    ELSE "external"

\* if video: elements[sub.id] = video
StoreIfTruthy(d, key, v) == IF Truthy(v) THEN DictSet(d, key, v) ELSE d

\* One iteration of the loop over the submissions, up to its first await:
\* a submission without url, a direct file, a gallery (parse_image does not
\* suspend), a cross-posted video and an external link are dealt with at
\* once; a .gifv page and a permalink are requested and awaited.  A
\* KeyError of parse_image leaves get_elements_info and run().
get_elements_info ==
    /\ phase = "resolving"
    /\ rpc = "loop"
    /\ idx < NumPosts
    /\ \E p \in Submissions :
        LET s    == [id |-> <<PostIds[idx + 1]>>] @@ p
            kind == IF ~s.has_url THEN "no_url" ELSE classify(s.url)
            pv   == parse_video(s)
            \* parse_image raises; only AttributeError is caught around it
            ke   == /\ kind = "gallery"
                    /\ s.has_metadata
                    /\ parse_image_raises(s.media_metadata)
        IN  /\ sub' = s
            /\ phase' = IF ke THEN "aborted" ELSE phase
            /\ escaped' = IF ke THEN [exc |-> "KeyError", at |-> "parse_image"]
                          ELSE escaped
            /\ idx' = idx + 1
            /\ elements' =
                 IF kind = "direct" THEN DictSet(elements, s.id, s.url)
                 ELSE IF kind = "gallery" /\ s.has_metadata /\ ~ke
                      THEN DictUpdate(elements, parse_image(s.id, s.media_metadata))
                 ELSE IF kind = "video" /\ pv.k # "await"
                      THEN StoreIfTruthy(elements, s.id, retry_connection(1, pv).v)
                 ELSE elements
            /\ rpc' = IF kind = "gifv" THEN "gifv"
                      ELSE IF kind = "video" /\ pv.k = "await" THEN "json"
                      ELSE "loop"
            /\ tries' = IF kind = "video" THEN 1 ELSE 0
            /\ wrapped' =
                 IF kind = "video" /\ pv.k # "await"
                 THEN [NotWrapped EXCEPT
                          !.ended = 1,
                          !.cause = IF pv.k = "raise" THEN "other" ELSE "none",
                          !.descriptor = s.crosspost,
                          !.fallback_url =
                             IF s.crosspost \in {"completed", "error"}
                             THEN UrlFallback ELSE <<>>]
                 ELSE NotWrapped
            /\ requests' = IF kind = "video" /\ pv.k = "await" THEN 1 ELSE 0
    /\ n429' = 0
    /\ answered' = 0
    /\ held' = 0
    /\ slept' = 0
    /\ UNCHANGED dvars

\* The page of a .gifv URL arrives, or session.get / resp.read raises.
\* get_real_gif_link is not wrapped by retry_connection and neither it nor
\* get_elements_info nor run catches the exception: it leaves run().
await_get_real_gif_link ==
    /\ phase = "resolving"
    /\ rpc = "gifv"
    /\ \/ \E e \in {"ClientError", "TimeoutError"} :
            /\ phase' = "aborted"
            /\ escaped' = [exc |-> e, at |-> "get_real_gif_link"]
            /\ UNCHANGED <<rpc, elements>>
       \/ \E page \in GifvPages :
            /\ elements' = StoreIfTruthy(elements, sub.id, get_real_gif_link(page))
            /\ rpc' = "loop"
            /\ UNCHANGED <<phase, escaped>>
    /\ UNCHANGED <<idx, sub, tries, wrapped, requests, n429, answered, held, slept>>
    /\ UNCHANGED dvars

\* The answer to the permalink request arrives (or the request raises).
await_download_video_with_json ==
    /\ phase = "resolving"
    /\ rpc = "json"
    /\ \E a \in JsonAnswers :
        LET r == download_video_with_json(a)
            w == retry_connection(tries, r)
        IN
        /\ answered' = IF w.k = "retry" THEN 0 ELSE a.status
        /\ IF r.k = "sleep"
            THEN /\ n429 < Max429
                 /\ rpc' = "sleep"
                 /\ n429' = n429 + 1
                 /\ held' = held + 1
                 /\ slept' = 0
                 /\ UNCHANGED <<phase, tries, wrapped, requests, elements, escaped>>
            ELSE IF w.k = "retry"
            THEN \* the wrapper invokes parse_video again, which requests
                 \* the permalink again; the frames of the failed
                 \* invocation are gone and their responses released
                 /\ tries' = tries + 1
                 /\ wrapped' = [wrapped EXCEPT !.fails = @ + 1]
                 /\ requests' = 1
                 /\ n429' = 0
                 /\ held' = 0
                 /\ slept' = 0
                 /\ UNCHANGED <<phase, rpc, elements, escaped>>
            ELSE IF w.k = "return"
            THEN /\ elements' = StoreIfTruthy(elements, sub.id, w.v)
                 /\ rpc' = "loop"
                 /\ held' = 0
                 /\ wrapped' =
                      [fails |-> IF r.k = "raise" /\ r.exc \in TransientErrors
                                 THEN wrapped.fails + 1 ELSE wrapped.fails,
                       ended |-> wrapped.ended + 1,
                       cause |-> IF r.k = "return" THEN "none"
                                 ELSE IF r.exc \in TransientErrors THEN "transient"
                                 ELSE "other",
                       descriptor |-> IF a.exc # "none" THEN "none" ELSE a.body,
                       fallback_url |-> a.url]
                 /\ UNCHANGED <<phase, tries, requests, n429, slept, escaped>>
            ELSE /\ phase' = "aborted"
                 /\ escaped' = [exc |-> w.exc, at |-> "parse_video"]
                 /\ UNCHANGED <<rpc, tries, wrapped, requests, n429, held, slept, elements>>
    /\ UNCHANGED <<idx, sub>>
    /\ UNCHANGED dvars

\* for _ in trange(5 * 60): time.sleep(1) -- blocks the event loop.
time_sleep ==
    /\ phase = "resolving"
    /\ rpc = "sleep"
    /\ slept' = slept + CooldownSeconds
    /\ rpc' = "recurse"
    /\ UNCHANGED <<phase, idx, sub, tries, wrapped, requests, n429, answered, held, elements, escaped>>
    /\ UNCHANGED dvars

\* return await self.download_video_with_json(submission): the same request
\* again, once the connector has a connection for it.
recursive_call ==
    /\ phase = "resolving"
    /\ rpc = "recurse"
    /\ held < ConnLimit
    /\ requests' = requests + 1
    /\ answered' = 0
    /\ rpc' = "json"
    /\ UNCHANGED <<phase, idx, sub, tries, wrapped, n429, held, slept, elements, escaped>>
    /\ UNCHANGED dvars

\* The body of a 429 answer is completely received: aiohttp releases the
\* connection of that response.  The event loop has to be running.
response_eof ==
    /\ phase = "resolving"
    /\ rpc \in {"json", "recurse"}
    /\ held > 0
    /\ held' = held - 1
    /\ UNCHANGED <<phase, idx, sub, rpc, tries, wrapped, requests, n429, answered, slept, elements, escaped>>
    /\ UNCHANGED dvars

(***************************************************************************)
(* Fetch Pipeline: download_elements.                                      *)
(***************************************************************************)
\* Tasks created while a post is still being resolved.
download_elements_eager ==
    /\ phase = "resolving"
    /\ idx >= 1
    /\ phase' = "downloading"
    /\ tasks' = create_tasks(elements)
    /\ UNCHANGED <<escaped, files, folder, dirs>>
    /\ UNCHANGED rvars

\* The enumeration is exhausted, get_elements_info returns and
\* download_elements creates one task per named item; the tasks start to
\* run when gather is awaited.  The locals of get_elements_info are gone.
download_elements ==
    /\ phase = "resolving"
    /\ rpc = "loop"
    /\ idx >= 1
    /\ phase' = "downloading"
    /\ tasks' = create_tasks(elements)
    /\ sub' = NoSubmission
    /\ tries' = 0
    /\ wrapped' = NotWrapped
    /\ requests' = 0
    /\ n429' = 0
    /\ answered' = 0
    /\ held' = 0
    /\ slept' = 0
    /\ UNCHANGED <<idx, rpc, elements, escaped, files, folder, dirs>>

\* The task after the wrapper has dealt with result r of its invocation:
\* invoked again from the start, or ended with an outcome of its own.
after_invocation(task, r, label) ==
    LET w == retry_connection(task.tries, r)
        f == IF r.k = "raise" /\ r.exc \in TransientErrors
             THEN task.fails + 1 ELSE task.fails
    IN  IF w.k = "retry"
        THEN [task EXCEPT !.pc = "get", !.tries = @ + 1, !.fails = f, !.status = 0,
                          !.audio = <<>>]
        ELSE [task EXCEPT !.pc = "done", !.ended = @ + 1, !.fails = f,
                          !.at = task.pc,
                          !.outcome = IF r.k = "return" THEN label ELSE "abandoned",
                          !.cause = IF r.k = "return" THEN "none"
                                    ELSE IF r.exc \in TransientErrors THEN "transient"
                                    ELSE "other"]

\* An exception the wrapper lets pass leaves the task and stops the event
\* loop: asyncio.run cancels every task that has not ended and the
\* exception leaves run().
cancel_all(ts) ==
    [i \in 1..Len(ts) |->
        IF ts[i].pc = "done" THEN ts[i] ELSE [ts[i] EXCEPT !.pc = "cancelled"]]

\* The invocation of download in task t (its record being task by then)
\* ends with result r, the file system being fs by then.
Finish(t, task, r, label, fs) ==
    /\ files' = fs
    /\ IF retry_connection(task.tries, r).k = "raise"
       THEN /\ phase' = "aborted"
            /\ escaped' = [exc |-> r.exc, at |-> "download"]
            /\ tasks' = cancel_all([tasks EXCEPT ![t] = task])
       ELSE /\ tasks' = [tasks EXCEPT ![t] = after_invocation(task, r, label)]
            /\ UNCHANGED <<phase, escaped>>

\* The task goes on to its next await.
Goto(t, task, pc, fs) ==
    /\ files' = fs
    /\ tasks' = [tasks EXCEPT ![t] = [task EXCEPT !.pc = pc]]
    /\ UNCHANGED <<phase, escaped>>

\* A task in which an operation has raised: it was invoked again or given up.
Faulty(task) == task.tries > 1 \/ task.outcome = "abandoned"

\* An operation of task t may raise (the model bounds in how many tasks).
Fault(t) ==
    \/ Faulty(tasks[t])
    \/ Cardinality({ i \in 1..Len(tasks) : Faulty(tasks[i]) }) < MaxFaultyTasks

\* The first mkdir of the run finds out what the configured folder does.
Folders == IF folder = "untested" THEN {"ok", "missing", "denied"} ELSE {folder}

(***************************************************************************)
(* Downloader: download, wrapped by retry_connection.                      *)
(***************************************************************************)
\* async with self.session.get(url) as response, up to the next await after
\* response.read(): the request or the read raises; or the answer is 404 or
\* 403, which ends the task before the body is read; or the body is read
\* and the platform video goes to download_reddit_video (which requests the
\* audio) and everything else to write_to_disk (which resolves the folder
\* and opens the file).
session_get(t) ==
    /\ tasks[t].pc = "get"
    /\ \/ \E e \in {"ClientError", "TimeoutError"} :
            /\ Fault(t)
            /\ Finish(t, tasks[t], Raised(e), "none", files)
            /\ UNCHANGED <<folder, dirs>>
       \/ \E status \in Statuses :
            LET task == [tasks[t] EXCEPT !.status = status]
            IN  IF IsGone(status)
                THEN /\ Finish(t, task, Returned(None), "gone", files)
                     /\ UNCHANGED <<folder, dirs>>
                ELSE IF IsRedditVideo(task.url)
                THEN /\ Goto(t, [task EXCEPT !.audio = re_sub_dash(task.url)],
                             "audio", files)
                     /\ UNCHANGED <<folder, dirs>>
                ELSE \E f \in Folders :
                        /\ folder' = f
                        /\ dirs' = makedirs(dirs, f, task.name)
                        /\ IF mkdir(f).k = "return"
                           THEN Goto(t, task, "write", files)
                           ELSE Finish(t, task, mkdir(f), "none", files)

\* write_to_disk: the file is opened, written and closed; open can fail
\* (no file) and write can fail (an incomplete file).
write_to_disk(t) ==
    /\ tasks[t].pc = "write"
    /\ \/ Finish(t, tasks[t], Returned(None), "written",
                 WriteFile(files, DstPath(tasks[t].name), Body(tasks[t].url)))
       \/ /\ Fault(t)
          /\ \E fs \in {files, WriteFile(files, DstPath(tasks[t].name), Partial)} :
                Finish(t, tasks[t], Raised("OSError"), "none", fs)
    /\ UNCHANGED <<folder, dirs>>

(***************************************************************************)
(* Media Merger: download_reddit_video.                                    *)
(***************************************************************************)
\* The companion audio is requested and read.
audio_get(t) ==
    /\ tasks[t].pc = "audio"
    /\ \/ \E e \in {"ClientError", "TimeoutError"} :
            /\ Fault(t)
            /\ Finish(t, tasks[t], Raised(e), "none", files)
       \/ Goto(t, tasks[t], "temp_video", files)
    /\ UNCHANGED <<folder, dirs>>

\* The video bytes are written to <name>_temp.mp4.
write_temp_video(t) ==
    /\ tasks[t].pc = "temp_video"
    /\ \/ Goto(t, tasks[t], "temp_audio",
               WriteFile(files, temp_video_file(tasks[t].name), Body(tasks[t].url)))
       \/ /\ Fault(t)
          /\ \E fs \in {files, WriteFile(files, temp_video_file(tasks[t].name), Partial)} :
                Finish(t, tasks[t], Raised("OSError"), "none", fs)
    /\ UNCHANGED <<folder, dirs>>

\* What the transcoder run (stream.run) does: it muxes, it raises
\* ffmpeg.Error, or it raises something else (FileNotFoundError: there is
\* no ffmpeg executable).
TranscoderResults == {"ok", "ffmpeg.Error", "FileNotFoundError"}

\* The transcoder run without the except clause.
on_transcoder_uncaught(m) ==
    IF m = "ok" THEN [k |-> "unlink", exc |-> "none", v |-> None]
    ELSE Raised(m)

\* try: stream.run(...) except ffmpeg.Error: write_to_disk(...): "unlink"
\* (merged, go on to the unlinks), "fallback" (the video bytes are written
\* instead) or the exception that leaves download_reddit_video.
on_transcoder(m) ==
    IF m = "ok" THEN [k |-> "unlink", exc |-> "none", v |-> None]
    ELSE IF m = "ffmpeg.Error" THEN [k |-> "fallback", exc |-> "none", v |-> None]
    ELSE Raised(m)

\* The audio bytes are written to <name>_audio_temp.mp4; then, without
\* suspending, the folder is resolved and the transcoder runs.  On success
\* the temporary files are unlinked and the task ends; on ffmpeg.Error
\* (which may leave an incomplete output file) write_to_disk opens the
\* destination file for the video bytes.
write_temp_audio(t) ==
    LET name == tasks[t].name
        url  == tasks[t].url
        fs1  == WriteFile(files, temp_audio_file(name), Body(tasks[t].audio))
    IN
    /\ tasks[t].pc = "temp_audio"
    /\ \/ /\ Fault(t)
          /\ \E fs \in {files, WriteFile(files, temp_audio_file(name), Partial)} :
                Finish(t, tasks[t], Raised("OSError"), "none", fs)
          /\ UNCHANGED <<folder, dirs>>
       \/ \E f \in Folders :
            /\ folder' = f
            /\ dirs' = makedirs(dirs, f, name)
            /\ IF mkdir(f).k # "return"
               THEN Finish(t, tasks[t], mkdir(f), "none", fs1)
               ELSE \E m \in TranscoderResults :
                      LET task == [tasks[t] EXCEPT !.merge = m]
                      IN  IF on_transcoder(m).k = "unlink"
                          THEN Finish(t, task, Returned(None), "written",
                                      delete_temporary_files(
                                         WriteFile(fs1, DstPath(name), Muxed(url)), name))
                          ELSE IF on_transcoder(m).k = "fallback"
                          THEN \E fs \in {fs1, WriteFile(fs1, DstPath(name), Partial)} :
                                  Goto(t, task, "fallback", fs)
                          ELSE /\ Fault(t)
                               /\ Finish(t, task, on_transcoder(m), "none", fs1)

\* The fallback write_to_disk of the raw video bytes, then the unlinks.
write_fallback(t) ==
    LET name == tasks[t].name
    IN
    /\ tasks[t].pc = "fallback"
    /\ \/ Finish(t, tasks[t], Returned(None), "written",
                 delete_temporary_files(
                    WriteFile(files, DstPath(name), Body(tasks[t].url)), name))
       \/ /\ Fault(t)
          /\ \E fs \in {files, WriteFile(files, DstPath(name), Partial)} :
                Finish(t, tasks[t], Raised("OSError"), "none", fs)
    /\ UNCHANGED <<folder, dirs>>

\* One step of one download task.
download ==
    /\ phase = "downloading"
    /\ \E t \in 1..Len(tasks) :
          \/ session_get(t)
          \/ write_to_disk(t)
    /\ UNCHANGED rvars

download_reddit_video ==
    /\ phase = "downloading"
    /\ \E t \in 1..Len(tasks) :
          \/ audio_get(t)
          \/ write_temp_video(t)
          \/ write_temp_audio(t)
          \/ write_fallback(t)
    /\ UNCHANGED rvars

\* await async_tqdm.gather(*tasks): download_elements and run return.
gather ==
    /\ phase = "downloading"
    /\ gather_done(tasks)
    /\ phase' = "done"
    /\ UNCHANGED <<escaped>>
    /\ UNCHANGED rvars
    /\ UNCHANGED dvars

Next ==
    \/ get_elements_info
    \/ await_get_real_gif_link
    \/ await_download_video_with_json
    \/ time_sleep
    \/ recursive_call
    \/ response_eof
    \/ download_elements
    \/ download
    \/ download_reddit_video
    \/ gather

Spec == Init /\ [][Next]_vars

\* The Media Resolver alone: the run up to the creation of the tasks.
ResolveNext ==
    \/ get_elements_info
    \/ await_get_real_gif_link
    \/ await_download_video_with_json
    \/ time_sleep
    \/ recursive_call
    \/ response_eof
    \/ download_elements

ResolveSpec == Init /\ [][ResolveNext]_vars

\* The event loop does not stop by itself: once the 429 answer is there the
\* sleep runs to its end, and the recursive call is made as soon as the
\* connector has a connection for it.
LiveSpec ==
    /\ Init
    /\ [][ResolveNext]_vars
    /\ WF_vars(time_sleep)
    /\ WF_vars(recursive_call)

\* A process-level interrupt (SIGINT) during run().  While posts are being
\* resolved, KeyboardInterrupt is raised in get_elements_info and caught in
\* main; nothing has been scheduled yet.  While gather is awaited, the
\* event loop is left and asyncio.run cancels every task that has not
\* ended: each is thrown CancelledError at the await it is suspended at,
\* which the wrapper lets pass, and the task runs no further.  Either way
\* the finally clause of main closes the session.
interrupt ==
    /\ phase \in {"resolving", "downloading"}
    /\ phase' = "interrupted"
    /\ escaped' = [exc |-> "KeyboardInterrupt",
                   at |-> IF phase = "resolving" THEN "get_elements_info" ELSE "gather"]
    /\ tasks' = cancel_all(tasks)
    /\ UNCHANGED <<files, folder, dirs>>
    /\ UNCHANGED rvars

InterruptNext ==
    \/ get_elements_info
    \/ await_get_real_gif_link
    \/ await_download_video_with_json
    \/ time_sleep
    \/ recursive_call
    \/ response_eof
    \/ download_elements
    \/ download
    \/ download_reddit_video
    \/ gather
    \/ interrupt

InterruptSpec == Init /\ [][InterruptNext]_vars

\* The Storage Router on its own: download(name, url) is called for one
\* file name drawn from RouterNames, with a URL that is no platform video,
\* so that write_to_disk resolves the folder of that name.
RouterNames ==
    { <<"a", ".">> \o e : e \in pattern \cup {GIF, <<"M","P","4">>, <<"t","x","t">>} }
    \cup { GIF, <<"a">> \o MP4, <<"a", ".">> \o MP4 \o <<".">> \o GIF }

RouterInit ==
    /\ phase = "downloading"
    /\ idx = 1
    /\ sub = NoSubmission
    /\ rpc = "loop"
    /\ tries = 0
    /\ wrapped = NotWrapped
    /\ requests = 0
    /\ n429 = 0
    /\ answered = 0
    /\ held = 0
    /\ slept = 0
    /\ elements = <<>>
    /\ escaped = NoEscape
    /\ \E name \in RouterNames : tasks = <<NewTask(name, UrlExternal)>>
    /\ files = NoFiles
    /\ folder = "untested"
    /\ dirs = {}

RouterNext ==
    \/ download
    \/ gather

RouterSpec == RouterInit /\ [][RouterNext]_vars

(***************************************************************************)
(* Properties.                                                             *)
(***************************************************************************)
Tasks == 1..Len(tasks)

Exists(path) == path \in DOMAIN files

\* The wrapped coroutines: download and parse_video.
Wrapped == {"download", "parse_video"}

\* The wrapper around parse_video is in the middle of an invocation.
ParseVideoRunning == phase = "resolving" /\ rpc \in {"json", "sleep", "recurse"}

\* C1: a connection error or timeout raised while the page of a .gifv post
\* is fetched never leaves get_elements_info (it is retried and, at worst,
\* only that post is given up).
C1_GifvFetchErrorContained ==
    ~(phase = "aborted" /\ escaped.at = "get_real_gif_link"
                        /\ escaped.exc \in TransientErrors)

\* C2: when the download task of a platform video has ended -- returned,
\* given up by the wrapper, or cancelled with the run -- neither of its
\* temporary files exists.
C2_NoTemporaryFilesAfterTask ==
    \A t \in Tasks :
        tasks[t].pc \in {"done", "cancelled"} =>
            /\ ~Exists(temp_video_file(tasks[t].name))
            /\ ~Exists(temp_audio_file(tasks[t].name))

\* C3: a wrapped operation that raises a transient error at every
\* invocation is invoked exactly MaxTries (5) times; then the wrapper
\* returns None (the item is given up) and raises nothing.
C3_TransientAtEveryAttempt ==
    /\ \A t \in Tasks :
          /\ tasks[t].tries <= MaxTries
          /\ tasks[t].fails <= MaxTries
          /\ (tasks[t].pc = "done" /\ tasks[t].cause = "transient") =>
                /\ tasks[t].tries = MaxTries
                /\ tasks[t].fails = MaxTries
                /\ tasks[t].outcome = "abandoned"
                /\ tasks[t].ended = 1
    /\ tries <= MaxTries
    /\ wrapped.cause = "transient" =>
          /\ tries = MaxTries
          /\ wrapped.fails = MaxTries
          /\ wrapped.ended = 1
          /\ rpc = "loop"
          /\ sub.id \notin DictKeys(elements)
    /\ escaped.at \in Wrapped => escaped.exc \notin TransientErrors

\* A task was given up after five transient errors.
C3_Witness ==
    \E t \in Tasks :
        tasks[t].pc = "done" /\ tasks[t].cause = "transient" /\ tasks[t].fails = 5

\* C4: the wrapper invokes the operation again only after a transient
\* error.  An invocation that returns ends the wrapper with that result, an
\* invocation that raises another exception ends it with None; in both
\* cases invocation k was preceded by exactly k - 1 transient errors, and
\* nothing is raised.
C4_RetryOnlyAfterTransient ==
    /\ \A t \in Tasks :
          /\ tasks[t].pc # "done" => tasks[t].tries = tasks[t].fails + 1
          /\ (tasks[t].pc = "done" /\ tasks[t].cause # "transient") =>
                /\ tasks[t].tries = tasks[t].fails + 1
                /\ tasks[t].ended = 1
          /\ (tasks[t].pc = "done" /\ tasks[t].cause = "other") =>
                tasks[t].outcome = "abandoned"
          /\ (tasks[t].pc = "done" /\ tasks[t].cause = "none") =>
                tasks[t].outcome \in {"written", "gone"}
    /\ ParseVideoRunning => tries = wrapped.fails + 1
    /\ (wrapped.ended > 0 /\ wrapped.cause # "transient") =>
          /\ tries = wrapped.fails + 1
          /\ wrapped.ended = 1
    /\ wrapped.cause = "other" => sub.id \notin DictKeys(elements)
    /\ escaped.at \in Wrapped => escaped.exc \notin OtherExceptions

\* The second invocation of a download raised a non-transient exception.
C4_Witness ==
    \E t \in Tasks :
        /\ tasks[t].pc = "done"
        /\ tasks[t].cause = "other"
        /\ tasks[t].tries = 2
        /\ tasks[t].fails = 1

\* C5: a failure of class Exception in one download task never cancels
\* another task and never leaves the task: every task created ends exactly
\* once with an outcome of its own, and download_elements returns only when
\* all of them have.
C5_SiblingTasksUnaffected ==
    /\ \A t \in Tasks :
          /\ tasks[t].ended <= 1
          /\ tasks[t].pc = "done" =>
                tasks[t].ended = 1 /\ tasks[t].outcome \in {"written", "gone", "abandoned"}
          /\ tasks[t].pc = "cancelled" =>
                phase = "aborted" /\ escaped.exc \in BaseOnlyExceptions
    /\ phase = "done" => \A t \in Tasks : tasks[t].pc = "done" /\ tasks[t].ended = 1
    /\ escaped.at = "download" => escaped.exc \in BaseOnlyExceptions

\* download_elements has returned; one task was given up after five
\* transient errors and another one wrote its file.
C5_Witness ==
    /\ phase = "done"
    /\ \E t, u \in Tasks :
          /\ tasks[t].outcome = "abandoned" /\ tasks[t].cause = "transient"
          /\ tasks[u].outcome = "written"

\* The suffix the claim reads off a URL: the leftmost dot followed by one
\* of jpg, jpeg, gif, gifv, png, mp4 (the longest one there); None when
\* there is none.
SuffixesClaimed ==
    << <<"j","p","e","g">>, <<"j","p","g">>, <<"g","i","f","v">>,
       <<"g","i","f">>, <<"p","n","g">>, <<"m","p","4">> >>

SuffixClaimed(link) ==
    LET hits == { i \in 1..Len(link) :
                    link[i] = "." /\ \E k \in 1..Len(SuffixesClaimed) :
                                        MatchAt(link, i + 1, SuffixesClaimed[k]) }
    IN  IF hits = {} THEN None
        ELSE SuffixesClaimed[SetMin({ k \in 1..Len(SuffixesClaimed) :
                 MatchAt(link, SetMin(hits) + 1, SuffixesClaimed[k]) })]

NameClaimed(e) ==
    IF SuffixClaimed(e.url) # None THEN e.key \o <<".">> \o SuffixClaimed(e.url)
    ELSE IF Contains(e.url, VREDDIT) THEN e.key \o <<".">> \o MP4
    ELSE None

\* C6: once download_elements has created the tasks, every resolved item
\* whose URL holds one of the suffixes jpg, jpeg, gif, gifv, png, mp4 has
\* exactly one task, named <identifier>.<suffix>; an item without suffix
\* has exactly one task named <identifier>.mp4 when its URL is a v.redd.it
\* URL and no task otherwise.
C6_EveryItemNamedBySuffix ==
    phase # "resolving" =>
        /\ \A i \in 1..Len(elements) :
              LET e == elements[i]
              IN  IF NameClaimed(e) # None
                  THEN Cardinality({ t \in Tasks : tasks[t].url = e.url
                                        /\ get_post_id(tasks[t].name) = e.key }) = 1
                       /\ \E t \in Tasks : tasks[t].name = NameClaimed(e)
                                           /\ tasks[t].url = e.url
                  ELSE \A t \in Tasks : get_post_id(tasks[t].name) # e.key
        /\ \A t \in Tasks : \E i \in 1..Len(elements) :
              tasks[t].url = elements[i].url /\ get_post_id(tasks[t].name) = elements[i].key

\* The served URLs with the HTML escaping of & undone.
UnescapedUrls == <<Unescaped1, Unescaped2, Unescaped3>>

UnescapedUrl(i) == UnescapedUrls[((i - 1) % Len(UnescapedUrls)) + 1]

\* get_elements_info has just dealt with a gallery post that has metadata.
GalleryResolved ==
    /\ phase = "resolving"
    /\ rpc = "loop"
    /\ sub.has_url
    /\ StartsWith(sub.url, GALLERY_PREFIX)
    /\ sub.has_metadata

\* The positions of the completed entries, and how many of them lie at or
\* before position n.
CompletedEntries(m) == { n \in 1..Len(m) : m[n].status = "completed" }

RankOfEntry(m, n) == Cardinality({ k \in CompletedEntries(m) : k <= n })

\* The items of the current gallery post in the dict, in dict order.
ItemsOfSub == SelectSeq(elements, LAMBDA e : StartsWith(e.key, sub.id \o <<"_">>))

ItemKey(n) == sub.id \o <<"_">> \o IntToStr(n)

C8_RateLimitCooldown ==
    /\ [](answered = 429 => phase = "resolving" /\ rpc \in {"sleep", "recurse"})
    /\ [](rpc = "recurse" => slept = CooldownSeconds)
    /\ [](ParseVideoRunning =>
            requests = n429 + (IF rpc = "json" THEN 1 ELSE 0))
    /\ [][(rpc = "recurse" /\ rpc' # "recurse") =>
            (rpc' = "json" /\ requests' = requests + 1 /\ sub' = sub)]_vars
    /\ [](answered \notin {0, 429} => rpc # "json")
    /\ [][(rpc = "json" /\ answered' \notin {0, 429}) => rpc' = "loop"]_vars
    /\ (answered = 429) ~> (rpc = "json" /\ answered = 0 /\ n429 > 0)

\* The second 429 in a row has been slept out and the request is out again.
C8_Witness ==
    rpc = "json" /\ n429 = 2 /\ requests = 3 /\ slept = CooldownSeconds

\* C9: a 404 or 403 answer ends the invocation and the task at the GET:
\* nothing raised, body not read, no audio request, no file of the task
\* created, no further invocation.
C9_GoneEndsTheTask ==
    \A t \in Tasks :
        tasks[t].status \in {403, 404} =>
            /\ tasks[t].pc = "done"
            /\ tasks[t].at = "get"
            /\ tasks[t].outcome = "gone"
            /\ tasks[t].cause = "none"
            /\ tasks[t].ended = 1
            /\ tasks[t].merge = "none"
            /\ ~Exists(DstPath(tasks[t].name))
            /\ ~Exists(temp_video_file(tasks[t].name))
            /\ ~Exists(temp_audio_file(tasks[t].name))

\* The third invocation of a download was answered 403.
C9_Witness ==
    \E t \in Tasks :
        tasks[t].status = 403 /\ tasks[t].pc = "done" /\ tasks[t].tries = 3

\* C10: ffmpeg.Error from the transcoder does not end the task as a
\* failure: the task goes on to write the raw video bytes to
\* videos/<name>, and unless that write itself raises it ends with
\* exactly those bytes there and nothing raised.
C10_MergeFailureFallsBack ==
    \A t \in Tasks :
        tasks[t].merge = "ffmpeg.Error" =>
            \/ tasks[t].pc = "fallback"
            \/ /\ tasks[t].pc = "done"
               /\ tasks[t].at = "fallback"
               /\ tasks[t].cause # "transient"
               /\ tasks[t].cause = "none" =>
                     /\ tasks[t].outcome = "written"
                     /\ DstPath(tasks[t].name).dir = "videos"
                     /\ Exists(DstPath(tasks[t].name))
                     /\ files[DstPath(tasks[t].name)] = Body(tasks[t].url)

\* The transcoder failed and the raw video is at the destination.
C10_Witness ==
    \E t \in Tasks :
        /\ tasks[t].merge = "ffmpeg.Error"
        /\ tasks[t].outcome = "written"
        /\ Exists(DstPath(tasks[t].name))
        /\ files[DstPath(tasks[t].name)] = Body(tasks[t].url)

\* C11: when creating the destination directory fails, for whatever reason,
\* the run is aborted by an exception that leaves the download task (the
\* failure is not turned into an abandoned item by the wrapper), and from
\* then on no file is written.
C11_DirectoryFailureIsFatal ==
    /\ [](folder \in {"missing", "denied"} =>
            phase = "aborted" /\ escaped.at = "download")
    /\ [][(folder \in {"missing", "denied"}) => (files' = files)]_vars

\* The wrapper around parse_video has returned to get_elements_info.
VideoResolved == phase = "resolving" /\ rpc = "loop" /\ wrapped.ended = 1

\* C12: video resolution stores an item for the post only when the
\* descriptor it inspected (of the cross-post parent, or of the permalink
\* answer) exists and has transcoding_status "completed", and the item then
\* carries that descriptor's fallback_url; in every other case (descriptor
\* absent, media stripped, status not completed, malformed body) the post
\* has no item.
C12_OnlyCompletedVideos ==
    VideoResolved =>
        /\ \A i \in 1..Len(elements) :
              elements[i].key = sub.id =>
                 /\ wrapped.descriptor = "completed"
                 /\ elements[i].url = wrapped.fallback_url
        /\ wrapped.descriptor # "completed" => sub.id \notin DictKeys(elements)
        /\ wrapped.cause # "none" => wrapped.descriptor # "completed"

\* A cross-posted video whose descriptor is there with a status other than
\* completed has been resolved to nothing.
C12_Witness ==
    /\ VideoResolved
    /\ sub.crosspost = "error"
    /\ wrapped.descriptor = "error"
    /\ wrapped.fallback_url = UrlFallback
    /\ sub.id \notin DictKeys(elements)

\* The rule the claim gives a post: the first that matches, in the order
\* direct file, .gifv, gallery, platform video, other.
RuleClaimed(s) ==
    IF ~s.has_url THEN "other"
    ELSE IF \E e \in { <<".","j","p","g">>, <<".","g","i","f">>, <<".","p","n","g">> } :
              EndsWith(s.url, e)
         THEN "direct"
    ELSE IF EndsWith(s.url, <<".","g","i","f","v">>) THEN "gifv"
    ELSE IF StartsWith(s.url, GALLERY_PREFIX) THEN "gallery"
    ELSE IF StartsWith(s.url, VREDDIT_PREFIX) THEN "video"
    ELSE "other"

\* The items of the current post in the dict: its own key or a gallery key.
KeysOfSub ==
    { i \in 1..Len(elements) :
        elements[i].key = sub.id \/ StartsWith(elements[i].key, sub.id \o <<"_">>) }

\* C13: a post is dealt with by the first rule that matches.  A direct file
\* yields exactly one item, keyed by the post's identifier, with the post's
\* URL, and no request; a .gifv post requests its page only; a gallery post
\* requests nothing; only a platform video goes through parse_video; a post
\* under no rule yields no item; and no error leaves resolution at a direct
\* file or at a post under no rule.
C13_FirstMatchingRule ==
    phase \in {"resolving", "aborted"} =>
        /\ RuleClaimed(sub) = "direct" =>
              /\ rpc = "loop" /\ requests = 0 /\ tries = 0
              /\ Cardinality(KeysOfSub) = 1
              /\ \A i \in KeysOfSub :
                    elements[i].key = sub.id /\ elements[i].url = sub.url
        /\ RuleClaimed(sub) = "gifv" =>
              rpc \in {"gifv", "loop"} /\ requests = 0 /\ tries = 0
        /\ RuleClaimed(sub) = "gallery" =>
              rpc = "loop" /\ requests = 0 /\ tries = 0
        /\ RuleClaimed(sub) = "video" => tries >= 1
        /\ RuleClaimed(sub) = "other" =>
              /\ rpc = "loop" /\ requests = 0 /\ tries = 0
              /\ KeysOfSub = {}
        /\ phase = "aborted" => RuleClaimed(sub) \notin {"direct", "other"}

\* A post whose URL ends in .jpg and starts like a gallery URL has been
\* resolved as a direct file.
C13_Witness ==
    /\ phase = "resolving"
    /\ sub.has_url /\ sub.url = UrlGalleryJpg
    /\ \E i \in 1..Len(elements) :
          elements[i].key = sub.id /\ elements[i].url = UrlGalleryJpg

\* The subfolder the claim gives a file name.
FolderClaimed(name) ==
    IF EndsWith(name, <<"m","p","4">>) THEN "videos"
    ELSE IF EndsWith(name, <<"g","i","f">>) \/ EndsWith(name, <<"g","i","f","v">>)
         THEN "gifs"
    ELSE "images"

\* C14: the Storage Router gives every file name exactly one of the
\* subfolders videos (names ending in mp4), gifs (ending in gif or gifv)
\* and images (every other name): when the call has returned that
\* directory exists, and the file of the name is created there and in no
\* other folder.
C14_StorageRouter ==
    /\ dirs \subseteq {"videos", "gifs", "images"}
    /\ \A t \in Tasks :
          /\ tasks[t].pc = "write" => FolderClaimed(tasks[t].name) \in dirs
          /\ \A p \in DOMAIN files :
                (p.name = tasks[t].name /\ p.dir # ".") =>
                    p.dir = FolderClaimed(tasks[t].name) /\ p.dir \in dirs
          /\ tasks[t].outcome = "written" =>
                Exists([dir |-> FolderClaimed(tasks[t].name), name |-> tasks[t].name])

\* The file a.gifv has been written to gifs.
C14_Witness ==
    \E t \in Tasks :
        /\ tasks[t].name = <<"a", ".", "g", "i", "f", "v">>
        /\ tasks[t].outcome = "written"
        /\ Exists([dir |-> "gifs", name |-> tasks[t].name])
        /\ "gifs" \in dirs

\* main's finally clause has run: the session is closed.  It runs whenever
\* run() is left, with or without an exception.
SessionClosed == phase \in {"done", "aborted", "interrupted"}

\* C15: after an interrupt the session is closed and no download work is
\* scheduled that was not scheduled before (none at all when the interrupt
\* came during resolution); no task in flight is cancelled: each one has
\* ended by itself or is still at one of its awaits.
C15_InterruptLetsTasksFinish ==
    phase = "interrupted" =>
        /\ SessionClosed
        /\ escaped.at = "get_elements_info" => tasks = <<>>
        /\ \A t \in Tasks : tasks[t].pc # "cancelled"

\* C16: posts having distinct identifiers, every step of resolution leaves
\* the items already in the map where they are, with their keys and URLs,
\* and adds each item it produces under a key of its own: one for a direct
\* file, one for each completed gallery entry, at most one for a .gifv post
\* or a platform video, all of them keys of the post in hand; no two items
\* of the map share a key.
C16_ItemsKeepTheirKeys ==
    [][ /\ Len(elements') >= Len(elements)
        /\ SubSeq(elements', 1, Len(elements)) = elements
        /\ \A i, j \in 1..Len(elements') :
              i # j => elements'[i].key # elements'[j].key
        /\ \A i \in (Len(elements) + 1)..Len(elements') :
              \/ elements'[i].key = sub'.id
              \/ StartsWith(elements'[i].key, sub'.id \o <<"_">>)
        /\ (idx' = idx + 1 /\ RuleClaimed(sub') = "direct") =>
              Len(elements') = Len(elements) + 1
        /\ (idx' = idx + 1 /\ RuleClaimed(sub') = "gallery"
                           /\ sub'.has_metadata /\ phase' = "resolving") =>
              Len(elements') =
                 Len(elements) + Cardinality(CompletedEntries(sub'.media_metadata))
        /\ (idx' = idx + 1 /\ RuleClaimed(sub') \in {"gifv", "video"}) =>
              Len(elements') <= Len(elements) + 1
      ]_vars

\* A gallery with two completed entries and a direct file have been
\* resolved: three items.
C16_Witness ==
    /\ phase = "resolving"
    /\ Len(elements) = 3
    /\ \E i \in 1..3 : StartsWith(elements[i].key, sub.id \o <<"_">>)
    /\ \E i \in 1..3 : elements[i].key \in {<<"a">>, <<"b">>}

\* C17: a gallery post whose metadata is there but incomplete (an entry
\* without status, or a completed entry without served URL) is given up
\* alone: no error of parse_image leaves get_elements_info.
C17_IncompleteGalleryContained ==
    ~(phase = "aborted" /\ escaped.at = "parse_image")

\* C18: between two consecutive invocations of a wrapped operation there
\* is a wait: the step in which invocation k fails with a transient error
\* does not leave the operation at the request of invocation k + 1.
C18_WaitBetweenAttempts ==
    [][ /\ \A t \in 1..Len(tasks) :
              (Len(tasks') = Len(tasks) /\ tasks'[t].tries = tasks[t].tries + 1) =>
                  tasks'[t].pc # "get"
        /\ (tries >= 1 /\ tries' = tries + 1) => rpc' # "json"
      ]_vars

\* The number of digits in a row from position i of s.
RECURSIVE DigitRun(_, _)
DigitRun(s, i) ==
    IF i <= Len(s) /\ IsDigit(s[i]) THEN 1 + DigitRun(s, i + 1) ELSE 0

\* The audio URL the claim gives a video URL: every marker DASH_<digits>,
\* whatever the number of digits (one at least), replaced by DASH_audio.
RECURSIVE AudioUrlClaimed(_)
AudioUrlClaimed(s) ==
    IF s = <<>> THEN <<>>
    ELSE IF MatchAt(s, 1, DASH) /\ DigitRun(s, Len(DASH) + 1) >= 1
         THEN DASH_AUDIO \o
              AudioUrlClaimed(SubSeq(s, Len(DASH) + DigitRun(s, Len(DASH) + 1) + 1, Len(s)))
         ELSE <<Head(s)>> \o AudioUrlClaimed(Tail(s))

HasMarkerClaimed(s) ==
    \E i \in 1..Len(s) : MatchAt(s, i, DASH) /\ DigitRun(s, i + Len(DASH)) >= 1

\* C19: the companion audio of a platform video is requested at the video
\* URL with the whole marker DASH_<digits> replaced by DASH_audio; when the
\* URL holds such a marker the audio URL differs from the video URL.
C19_AudioUrl ==
    \A t \in Tasks :
        tasks[t].audio # <<>> =>
            /\ tasks[t].audio = AudioUrlClaimed(tasks[t].url)
            /\ HasMarkerClaimed(tasks[t].url) => tasks[t].audio # tasks[t].url

\* The coroutines of resolution an exception can leave run() from.
ResolverCalls == {"get_real_gif_link", "parse_video", "parse_image"}

\* C20: resolution and download are separate phases.  Posts are taken from
\* the enumeration one at a time, in order, each only when the one before
\* is dealt with; while posts are resolved there is no task, no file and no
\* folder; tasks exist only once no post is left half resolved, and from
\* then on the map is not changed; and when resolution ends with an error
\* there is no task and no file.
C20_ResolveThenDownload ==
    /\ [](phase = "resolving" =>
            tasks = <<>> /\ files = NoFiles /\ folder = "untested" /\ dirs = {})
    /\ []((phase = "aborted" /\ escaped.at \in ResolverCalls) =>
            tasks = <<>> /\ files = NoFiles /\ dirs = {})
    /\ [](tasks # <<>> => (rpc = "loop" /\ idx >= 1))
    /\ [][(idx' # idx) =>
            /\ phase = "resolving" /\ rpc = "loop"
            /\ idx' = idx + 1
            /\ sub'.id = <<PostIds[idx']>>]_vars
    /\ [][(phase # "resolving") => (elements' = elements /\ idx' = idx)]_vars

\* Resolution ended with an error at the second post, the first one having
\* been resolved to an item: nothing was downloaded.
C20_Witness ==
    /\ phase = "aborted"
    /\ escaped.at \in ResolverCalls
    /\ Len(elements) >= 1
    /\ tasks = <<>>
    /\ files = NoFiles

=============================================================================
